---------------------------- MODULE Spec2Model ----------------------------
(***************************************************************************)
(* Flood-aware routing of RADAR-Net-backend: grid mapping, hazard pruning  *)
(* of the road network, component selection, nearest-node lookup and the   *)
(* A* route search, as called from the /process handler.                   *)
(*                                                                         *)
(* Coordinates are exact rationals num/den over integer units (the code    *)
(* uses floats).  Road nodes lie on one meridian (longitude NodeLon), so   *)
(* the great-circle distance between two nodes is exactly proportional to  *)
(* their latitude difference; one unit of latitude is one unit of length.  *)
(* Edge polylines are axis-aligned, so arc lengths are integers.           *)
(*                                                                         *)
(* Library behaviour the code relies on is modelled as the libraries       *)
(* define it: networkx's astar_path (heap ordered by priority, then push   *)
(* order; a missing weight attribute counts 1; the least weight among      *)
(* parallel edges), connected_components and max() (first largest          *)
(* component, nodes iterated in ascending order), remove_nodes_from        *)
(* (incident edges go too), shapely's interpolate and numpy's linspace.    *)
(* Which of several equally near nodes osmnx returns is left open.         *)
(***************************************************************************)
EXTENDS Integers, Sequences, FiniteSets, TLC

VARIABLES pc, grid, G0, G, anchor, island, query, startNode, endNode,
          route, response, calls, pt, cell, flooded

vars == <<pc, grid, G0, G, anchor, island, query, startNode, endNode,
          route, response, calls, pt, cell, flooded>>

(* ------------------------------ bounds --------------------------------- *)
MaxNode == 3
MaxEdges == 3
EdgeSamplePoints == 3
Margin == 2

(* --------------------------- optional values --------------------------- *)
\* Python's None is the empty tuple, a present value v is <<v>>.
None == <<>>
Some(v) == <<v>>
Get(opt, default) == IF opt = None THEN default ELSE opt[1]

Abs(a) == IF a < 0 THEN -a ELSE a

\* Python's int() on a quotient a/b with b > 0: truncation toward zero.
PyInt(a, b) == IF a >= 0 THEN a \div b ELSE -((-a) \div b)

(* ------------------------- request constants --------------------------- *)
\* north, south, east, west of process_route, in integer units.
BBox == [north |-> 4, south |-> 0, east |-> 4, west |-> 0]

\* grid_shape of process_route, scaled down.
GridShape == <<2, 2>>

Cells == (0 .. GridShape[1] - 1) \X (0 .. GridShape[2] - 1)

\* np.random.choice([0, 1], size=grid_shape): every 0/1 grid.
Grids == [Cells -> {0, 1}]

(* ------------------------------ GridIndex ------------------------------ *)
\* latlon_to_grid_coords for the point (lat, lon) = (p.y / p.den, p.x / p.den).
LatLonToGridCoords(p) ==
    LET rows == GridShape[1]
        cols == GridShape[2]
        row == PyInt((BBox.north * p.den - p.y) * rows,
                     (BBox.north - BBox.south) * p.den)
        col == PyInt((p.x - BBox.west * p.den) * cols,
                     (BBox.east - BBox.west) * p.den)
    IN  IF 0 <= row /\ row < rows /\ 0 <= col /\ col < cols
        THEN Some(<<row, col>>)
        ELSE None

\* Mutant of IsNodeFlooded: a point outside the grid counts as flooded.
IsNodeFloodedFailClosed(p, fg) ==
    LET gc == LatLonToGridCoords(p)
    IN  IF gc = None THEN TRUE ELSE fg[gc[1]] = 1

\* is_node_flooded
IsNodeFlooded(p, fg) ==
    LET gc == LatLonToGridCoords(p)
    IN  IF gc = None THEN FALSE ELSE fg[gc[1]] = 1

Point(x, y) == [x |-> x, y |-> y, den |-> 1]


(* ------------------------------ RoadNetwork ---------------------------- *)
Nodes == 1 .. MaxNode

\* Node attributes 'x' (longitude) and 'y' (latitude) of the provider's graph.
Lon == [node |-> 1, detour |-> 3]
NodeX(n) == Lon.node
NodeY(n) == 2 * n - 3
NodePoint(n) == Point(NodeX(n), NodeY(n))

\* A MultiDiGraph: node set, and edges (u, v, key) with their attributes;
\* 'length' and 'geometry' may be absent (None).
Graph(N, E) == [nodes |-> N, edges |-> E]
EmptyGraph == Graph({}, {})

Edge(u, v, k, len, geom) ==
    [u |-> u, v |-> v, key |-> k, length |-> len, geometry |-> geom]

\* A road drawn straight between its nodes carries no 'geometry'.
StraightEdge(u, v) == Edge(u, v, 0, Some(Abs(NodeY(v) - NodeY(u))), None)

\* A parallel road of the same node pair that swings out to Lon.detour.
DetourLine(u, v) ==
    << <<NodeX(u), NodeY(u)>>, <<Lon.detour, NodeY(u)>>,
       <<Lon.detour, NodeY(v)>>, <<NodeX(v), NodeY(v)>> >>

DetourEdge(u, v) ==
    Edge(u, v, 1,
         Some(Abs(Lon.detour - NodeX(u)) + Abs(NodeY(v) - NodeY(u))
              + Abs(Lon.detour - NodeX(v))),
         Some(DetourLine(u, v)))

RECURSIVE SubsetsUpTo(_, _)
SubsetsUpTo(S, k) ==
    IF k = 0 THEN {{}}
    ELSE LET prev == SubsetsUpTo(S, k - 1)
         IN  prev \cup {T \cup {x} : T \in prev, x \in S}

RoadCandidates ==
    {StraightEdge(u, v) : u \in Nodes, v \in Nodes}
        \cup {DetourEdge(u, v) : u \in Nodes, v \in Nodes}

\* get_road_network: what ox.graph_from_bbox may hand back (it raises
\* rather than hand back a graph without nodes).
RoadNetworksOn(N) ==
    {Graph(N, E) :
        E \in SubsetsUpTo({e \in RoadCandidates :
                              e.u # e.v /\ e.u \in N /\ e.v \in N}, MaxEdges)}

RoadNetworks == UNION {RoadNetworksOn(N) : N \in (SUBSET Nodes) \ {{}}}

\* Closure: every edge joins nodes of the graph.
WellFormed(g) == \A e \in g.edges : e.u \in g.nodes /\ e.v \in g.nodes

(* ------------------------------ EdgeSampler ---------------------------- *)
\* Length of one axis-aligned polyline segment.
SegLen(p, q) == Abs(q[1] - p[1]) + Abs(q[2] - p[2])

RECURSIVE LineLength(_, _)
LineLength(line, i) ==
    IF i >= Len(line) THEN 0
    ELSE SegLen(line[i], line[i + 1]) + LineLength(line, i + 1)

\* LineString.interpolate(dNum / den), walking the segments from the i-th.
RECURSIVE Interpolate(_, _, _, _)
Interpolate(line, i, dNum, den) ==
    IF i >= Len(line)
    THEN Point(line[Len(line)][1], line[Len(line)][2])
    ELSE LET p == line[i]
             q == line[i + 1]
             sl == SegLen(p, q)
         IN  IF sl > 0 /\ dNum <= sl * den
             THEN [x |-> p[1] * sl * den + (q[1] - p[1]) * dNum,
                   y |-> p[2] * sl * den + (q[2] - p[2]) * dNum,
                   den |-> sl * den]
             ELSE Interpolate(line, i + 1, dNum - sl * den, den)

\* np.linspace(0, length, n) as numerators over one denominator.
SampleDen(n) == IF n > 1 THEN n - 1 ELSE 1
SamplePoints(line, n) ==
    {Interpolate(line, 1, i * LineLength(line, 1), SampleDen(n)) : i \in 0 .. n - 1}

\* is_edge_flooded
IsEdgeFlooded(line, fg, n) ==
    \E p \in SamplePoints(line, n) : IsNodeFlooded(p, fg)

(* ------------------------------ GraphPruner ---------------------------- *)
\* Mutant of RemoveNodesFrom: the nodes go, their edges stay.
RemoveNodesOnly(g, ns) == Graph(g.nodes \ ns, g.edges)

\* G.remove_nodes_from: the nodes go, and every edge incident to them.
RemoveNodesFrom(g, ns) ==
    Graph(g.nodes \ ns, {e \in g.edges : e.u \notin ns /\ e.v \notin ns})

\* G.remove_edges_from
RemoveEdgesFrom(g, es) == Graph(g.nodes, g.edges \ es)

\* Mutant of FloodedNodes: 'x' read as the latitude and 'y' as the longitude.
FloodedNodesSwapped(g, fg) ==
    {n \in g.nodes : IsNodeFlooded(Point(NodeY(n), NodeX(n)), fg)}

FloodedNodes(g, fg) == {n \in g.nodes : IsNodeFlooded(NodePoint(n), fg)}

\* The edge's own geometry, or a straight line between its nodes.
EdgeGeometry(e) ==
    IF e.geometry # None THEN e.geometry[1]
    ELSE << <<NodeX(e.u), NodeY(e.u)>>, <<NodeX(e.v), NodeY(e.v)>> >>

FloodedEdges(g, fg, n) ==
    {e \in g.edges : IsEdgeFlooded(EdgeGeometry(e), fg, n)}

(* ---------------------------- ComponentSelector ------------------------ *)
\* Neighbours in G.to_undirected().
UNeighbours(g, S) ==
    S \cup {e.v : e \in {d \in g.edges : d.u \in S}}
      \cup {e.u : e \in {d \in g.edges : d.v \in S}}

RECURSIVE UReach(_, _)
UReach(g, S) ==
    LET T == UNeighbours(g, S) \cap g.nodes
    IN  IF T = S THEN S ELSE UReach(g, T)

\* nx.connected_components
ConnectedComponents(g) == {UReach(g, {n}) : n \in g.nodes}

SetMin(S) == CHOOSE m \in S : \A x \in S : m <= x

\* max(components, key=len): the first largest one met, components being met
\* in the order of their first node.
MaxComponent(g) ==
    CHOOSE c \in ConnectedComponents(g) :
        \A d \in ConnectedComponents(g) :
            \/ Cardinality(d) < Cardinality(c)
            \/ Cardinality(d) = Cardinality(c) /\ SetMin(c) <= SetMin(d)

\* G.subgraph(main_component).copy()
Subgraph(g, ns) ==
    Graph(g.nodes \cap ns, {e \in g.edges : e.u \in ns /\ e.v \in ns})

\* Mutant of MainComponent: start_node is ignored.
MainComponentLargest(g, start_node) ==
    IF g.nodes = {} THEN None ELSE Some(MaxComponent(g))

\* The component choice of get_reachable_roads; None when max() meets an
\* empty sequence and raises ValueError.
MainComponent(g, start_node) ==
    IF start_node # None /\ start_node[1] \in g.nodes
    THEN Some(CHOOSE c \in ConnectedComponents(g) : start_node[1] \in c)
    ELSE IF g.nodes = {} THEN None ELSE Some(MaxComponent(g))


(* ---------------------------- NearestNodeLocator ----------------------- *)
\* Great-circle distance between two latitudes of the nodes' meridian.
MeridianDistance(lat1, lat2) == Abs(lat2 - lat1)

\* ox.distance.nearest_nodes for a query point on the nodes' meridian: the
\* nodes at the least distance (which of several the index returns is the
\* library's choice).
NearestNodes(g, lat) ==
    {n \in g.nodes : \A m \in g.nodes :
        MeridianDistance(NodeY(n), lat) <= MeridianDistance(NodeY(m), lat)}

(* -------------------------------- PathFinder --------------------------- *)
\* haversine_distance(u, v, G)
HaversineDistance(u, v) == MeridianDistance(NodeY(u), NodeY(v))

ParallelEdges(g, u, v) == {e \in g.edges : e.u = u /\ e.v = v}

MinOf(S) == CHOOSE m \in S : \A x \in S : m <= x

\* Mutant of AStarWeight: the weight attribute is never found, every hop
\* weighs 1.
AStarWeightUnit(g, u, v) == 1

\* networkx's weight function for weight='length' on a multigraph: the least
\* d.get('length', 1) over the parallel edges.
AStarWeight(g, u, v) == MinOf({Get(e.length, 1) : e \in ParallelEdges(g, u, v)})

\* The hop length get_a_star_geojson adds up: the 'length' (or 0) of
\* min(G[u][v].values(), key=lambda x: x.get('length', 0)).
ReportedHopLength(g, u, v) ==
    MinOf({Get(e.length, 0) : e \in ParallelEdges(g, u, v)})

RECURSIVE SortedSeq(_)
SortedSeq(S) ==
    IF S = {} THEN <<>> ELSE <<SetMin(S)>> \o SortedSeq(S \ {SetMin(S)})

\* G_succ[curnode], in adjacency order.
Successors(g, u) == SortedSeq({e.v : e \in {d \in g.edges : d.u = u}})

Put(f, k, val) == [x \in DOMAIN f \cup {k} |-> IF x = k THEN val ELSE f[x]]

\* The for-loop of astar_path over the neighbours of curnode.
RECURSIVE Relax(_, _, _, _, _, _)
Relax(g, target, cur, dist, nbrs, st) ==
    IF nbrs = <<>> THEN st
    ELSE LET nb == Head(nbrs)
             ncost == dist + AStarWeight(g, cur, nb)
             known == nb \in DOMAIN st.enqueued
             h == IF known THEN st.enqueued[nb][2]
                  ELSE HaversineDistance(nb, target)
         IN  IF known /\ st.enqueued[nb][1] <= ncost
             THEN Relax(g, target, cur, dist, Tail(nbrs), st)
             ELSE Relax(g, target, cur, dist, Tail(nbrs),
                        [queue |-> st.queue
                                     \cup {<<ncost + h, st.c, nb, ncost, Some(cur)>>},
                         c |-> st.c + 1,
                         enqueued |-> Put(st.enqueued, nb, <<ncost, h>>),
                         explored |-> st.explored])

\* The parent chain of astar_path, oldest node first.
RECURSIVE BackPath(_, _)
BackPath(explored, node) ==
    IF node = None THEN <<>>
    ELSE Append(BackPath(explored, explored[node[1]]), node[1])

\* heappop: the least (priority, counter) entry.
HeapTop(queue) ==
    CHOOSE q \in queue : \A r \in queue :
        q[1] < r[1] \/ (q[1] = r[1] /\ q[2] <= r[2])

\* The while-loop of astar_path; None is NetworkXNoPath.
RECURSIVE AStarLoop(_, _, _)
AStarLoop(g, target, st) ==
    IF st.queue = {} THEN None
    ELSE LET top == HeapTop(st.queue)
             cur == top[3]
             dist == top[4]
             parent == top[5]
             popped == [st EXCEPT !.queue = st.queue \ {top}]
         IN  IF cur = target
             THEN Some(Append(BackPath(st.explored, parent), cur))
             ELSE IF /\ cur \in DOMAIN st.explored
                     /\ \/ st.explored[cur] = None
                        \/ st.enqueued[cur][1] < dist
             THEN AStarLoop(g, target, popped)
             ELSE AStarLoop(g, target,
                     Relax(g, target, cur, dist, Successors(g, cur),
                           [popped EXCEPT
                               !.explored = Put(st.explored, cur, parent)]))

\* Mutant of AStarPath: source and target are passed in the wrong order.
AStarPathSwapped(g, source, target) ==
    IF source \notin g.nodes \/ target \notin g.nodes THEN None
    ELSE AStarLoop(g, source,
                   [queue |-> {<<0, 0, target, 0, None>>}, c |-> 1,
                    enqueued |-> <<>>, explored |-> <<>>])

\* nx.astar_path(G, source, target, heuristic=haversine, weight='length');
\* None when it raises (NodeNotFound, NetworkXNoPath).
AStarPath(g, source, target) ==
    IF source \notin g.nodes \/ target \notin g.nodes THEN None
    ELSE AStarLoop(g, target,
                   [queue |-> {<<0, 0, source, 0, None>>}, c |-> 1,
                    enqueued |-> <<>>, explored |-> <<>>])

RECURSIVE TotalDist(_, _, _)
TotalDist(g, path, i) ==
    IF i >= Len(path) THEN 0
    ELSE ReportedHopLength(g, path[i], path[i + 1]) + TotalDist(g, path, i + 1)

\* Python's round() of a / b to an integer: half to even.
Round(a, b) ==
    LET q == a \div b
        r == a % b
    IN  IF 2 * r < b THEN q
        ELSE IF 2 * r > b THEN q + 1
        ELSE IF q % 2 = 0 THEN q ELSE q + 1

(* ------------------------------ RouteSerializer ------------------------ *)
\* get_a_star_geojson: the feature's properties and coordinates, or None.
\* Lengths are whole units, which round(total_dist, 2) leaves as they are;
\* distance_km is in hundredths of a kilometre, a kilometre being 1000 units.
GetAStarGeojson(g, start_node, end_node) ==
    LET path == AStarPath(g, start_node, end_node)
    IN  IF path = None THEN None
        ELSE LET total == TotalDist(g, path[1], 1)
             IN  Some([path |-> path[1],
                       distance_meters |-> total,
                       distance_km |-> Round(total, 10),
                       num_nodes |-> Len(path[1]),
                       status |-> "dry",
                       coordinates |->
                           [i \in 1 .. Len(path[1]) |->
                               <<NodeX(path[1][i]), NodeY(path[1][i])>>]])


(* ------------------------------- responses ----------------------------- *)
LocationNotFound == [status |-> 404, message |-> "Location not found"]
NoRouteFound == [status |-> 404, message |-> "No route found"]
NeedTwoNodes == [status |-> 401, message |-> "Need atleast 2 nodes to compute path"]
OsmError == [status |-> 500, message |-> "Error in OSM section"]
RouteFound(r) == [status |-> 200, message |-> "route", body |-> r]

\* start_lat and end_lat of process_route, on the nodes' meridian.
Query == [start |-> 3, end |-> 1]

(* ------------------------------- the state ----------------------------- *)
Idle ==
    /\ island = None
    /\ startNode = None
    /\ endNode = None
    /\ route = None
    /\ response = None
    /\ calls = <<>>

NoPoint ==
    /\ pt = Point(0, 0)
    /\ cell = None
    /\ flooded = FALSE

\* A request arrives at /process.
Init ==
    /\ pc = "request"
    /\ grid \in Grids
    /\ G0 \in RoadNetworks
    /\ G = EmptyGraph
    /\ anchor = None
    /\ query = Query
    /\ Idle
    /\ NoPoint

\* process_route up to the call of get_reachable_roads: geocode_location
\* finds the destination or the request ends with 404; get_road_network
\* then downloads G.
Geocode ==
    /\ pc = "request"
    /\ \E found \in BOOLEAN :
          IF found
          THEN /\ pc' = "start"
               /\ G' = G0
               /\ calls' = Append(calls, "get_reachable_roads")
               /\ UNCHANGED response
          ELSE /\ pc' = "done"
               /\ response' = Some(LocationNotFound)
               /\ UNCHANGED <<G, calls>>
    /\ UNCHANGED <<grid, G0, anchor, island, query, startNode, endNode, route,
                   pt, cell, flooded>>

\* get_reachable_roads, lines 154-169: flooded nodes are removed.
RemoveFloodedNodes ==
    /\ pc = "start"
    /\ G' = RemoveNodesFrom(G, FloodedNodes(G, grid))
    /\ pc' = "nodes_removed"
    /\ UNCHANGED <<grid, G0, anchor, island, query, startNode, endNode, route,
                   response, calls, pt, cell, flooded>>

\* get_reachable_roads, lines 171-195: flooded edges are removed.
RemoveFloodedEdges ==
    /\ pc = "nodes_removed"
    /\ G' = RemoveEdgesFrom(G, FloodedEdges(G, grid, EdgeSamplePoints))
    /\ pc' = "edges_removed"
    /\ UNCHANGED <<grid, G0, anchor, island, query, startNode, endNode, route,
                   response, calls, pt, cell, flooded>>

\* get_reachable_roads, lines 197-219: the component is chosen and returned,
\* or max() raises on a graph without nodes.
SelectComponent ==
    /\ pc = "edges_removed"
    /\ LET main == MainComponent(G, anchor)
       IN  IF main = None
           THEN /\ pc' = "raised"
                /\ UNCHANGED island
           ELSE /\ pc' = "returned"
                /\ island' = Some(Subgraph(G, main[1]))
    /\ UNCHANGED <<grid, G0, G, anchor, query, startNode, endNode, route,
                   response, calls, pt, cell, flooded>>

\* process_route, line 52 (else branch) and line 67.
Insufficient ==
    /\ pc = "returned"
    /\ Cardinality(island[1].nodes) < 2
    /\ response' = Some(NeedTwoNodes)
    /\ pc' = "done"
    /\ UNCHANGED <<grid, G0, G, anchor, island, query, startNode, endNode,
                   route, calls, pt, cell, flooded>>

\* process_route, lines 52-59: both get_nearest_node calls.
FindNearest ==
    /\ pc = "returned"
    /\ Cardinality(island[1].nodes) >= 2
    /\ \E s \in NearestNodes(island[1], query.start) :
       \E t \in NearestNodes(island[1], query.end) :
          /\ startNode' = Some(s)
          /\ endNode' = Some(t)
    /\ calls' = calls \o <<"get_nearest_node", "get_nearest_node">>
    /\ pc' = "located"
    /\ UNCHANGED <<grid, G0, G, anchor, island, query, route, response,
                   pt, cell, flooded>>

\* process_route, lines 62-69: the search and the answer.
FindRoute ==
    /\ pc = "located"
    /\ route' = GetAStarGeojson(island[1], startNode[1], endNode[1])
    /\ calls' = Append(calls, "get_a_star_geojson")
    /\ response' = IF route' = None THEN Some(NoRouteFound)
                   ELSE Some(RouteFound(route'[1]))
    /\ pc' = "done"
    /\ UNCHANGED <<grid, G0, G, anchor, island, query, startNode, endNode,
                   pt, cell, flooded>>

\* process_route, lines 70-71: any exception of the OSM section.
HandleException ==
    /\ pc = "raised"
    /\ response' = Some(OsmError)
    /\ pc' = "done"
    /\ UNCHANGED <<grid, G0, G, anchor, island, query, startNode, endNode,
                   route, calls, pt, cell, flooded>>

Next ==
    \/ Geocode
    \/ RemoveFloodedNodes
    \/ RemoveFloodedEdges
    \/ SelectComponent
    \/ Insufficient
    \/ FindNearest
    \/ FindRoute
    \/ HandleException

Spec == Init /\ [][Next]_vars


(* ------------------- get_reachable_roads called directly --------------- *)
\* The start_node argument: absent, the first or the last node identifier.
StartNodeChoices == {None, Some(1), Some(MaxNode)}

InitRoads ==
    /\ pc = "start"
    /\ grid \in Grids
    /\ G0 \in RoadNetworks
    /\ G = G0
    /\ anchor \in StartNodeChoices
    /\ query = Query
    /\ Idle
    /\ NoPoint

NextRoads ==
    \/ RemoveFloodedNodes
    \/ RemoveFloodedEdges
    \/ SelectComponent

SpecRoads == InitRoads /\ [][NextRoads]_vars

(* ---------------------- is_node_flooded called directly ---------------- *)
InitGrid ==
    /\ pc = "point"
    /\ grid \in Grids
    /\ \E lat \in (BBox.south - Margin) .. (BBox.north + Margin) :
       \E lon \in (BBox.west - Margin) .. (BBox.east + Margin) :
          pt = Point(lon, lat)
    /\ cell = None
    /\ flooded = FALSE
    /\ G0 = EmptyGraph
    /\ G = EmptyGraph
    /\ anchor = None
    /\ query = Query
    /\ Idle

\* latlon_to_grid_coords(lat, lon, ...)
MapPoint ==
    /\ pc = "point"
    /\ cell' = LatLonToGridCoords(pt)
    /\ pc' = "mapped"
    /\ UNCHANGED <<grid, G0, G, anchor, island, query, startNode, endNode,
                   route, response, calls, pt, flooded>>

\* is_node_flooded(lat, lon, flood_grid, ...)
CheckPoint ==
    /\ pc = "mapped"
    /\ flooded' = IsNodeFlooded(pt, grid)
    /\ pc' = "checked"
    /\ UNCHANGED <<grid, G0, G, anchor, island, query, startNode, endNode,
                   route, response, calls, pt, cell>>

NextGrid == MapPoint \/ CheckPoint

SpecGrid == InitGrid /\ [][NextGrid]_vars

(* --------------------- get_a_star_geojson called directly -------------- *)
\* An edge slot is a node pair and a parallel key; key 1 needs key 0.
Slots == {s \in Nodes \X Nodes \X {0, 1} : s[1] # s[2]}

SlotSets ==
    {P \in SubsetsUpTo(Slots, MaxEdges) :
        \A s \in P : s[3] = 1 => <<s[1], s[2], 0>> \in P}

\* The 'length' of an edge: absent, shorter than the straight-line distance
\* of its nodes, that distance, or the length of a road swinging out to
\* Lon.detour.
SlotLength(s, c) ==
    IF c = "absent" THEN None
    ELSE IF c = "short" THEN Some(1)
    ELSE IF c = "straight" THEN StraightEdge(s[1], s[2]).length
    ELSE DetourEdge(s[1], s[2]).length

Islands(P, choices) ==
    {Graph(Nodes, {Edge(s[1], s[2], s[3], SlotLength(s, f[s]), None) : s \in P}) :
        f \in [P -> choices]}

InitSearch(choices) ==
    /\ pc = "search"
    /\ \E P \in SlotSets : \E g \in Islands(P, choices) : island = Some(g)
    /\ \E s \in Nodes : startNode = Some(s)
    /\ \E t \in Nodes : endNode = Some(t)
    /\ route = None
    /\ response = None
    /\ calls = <<>>
    /\ grid = [c \in Cells |-> 0]
    /\ G0 = EmptyGraph
    /\ G = EmptyGraph
    /\ anchor = None
    /\ query = Query
    /\ NoPoint

\* Graphs whose edges may lack the 'length' attribute.
InitAStar == InitSearch({"absent", "straight", "detour"})

\* Graphs whose edges all carry a length, some of them too short for the
\* straight-line distance of their nodes.
InitAStarLengths == InitSearch({"short", "straight", "detour"})

\* get_a_star_geojson(G, start_node, end_node)
SearchRoute ==
    /\ pc = "search"
    /\ route' = GetAStarGeojson(island[1], startNode[1], endNode[1])
    /\ pc' = IF route' = None THEN "no_route" ELSE "routed"
    /\ UNCHANGED <<grid, G0, G, anchor, island, query, startNode, endNode,
                   response, calls, pt, cell, flooded>>

NextAStar == SearchRoute

SpecAStar == InitAStar /\ [][NextAStar]_vars

SpecAStarLengths == InitAStarLengths /\ [][NextAStar]_vars


(* ======================== the claims, as formulas ====================== *)
InSeq(x, sq) == \E i \in 1 .. Len(sq) : sq[i] = x

Hazarded(n) == IsNodeFlooded(NodePoint(n), grid)

AllClear == \A c \in Cells : grid[c] = 0

Pruned == pc \in {"nodes_removed", "edges_removed", "returned", "raised",
                  "located", "done"}

\* C1: after pruning no node of the graph maps to a hazarded cell, the
\* island returned by get_reachable_roads holds no such node of the input
\* network, and no route answered by process_route passes through one.
C1_HazardedNodesAvoided ==
    /\ Pruned => \A n \in G.nodes : ~Hazarded(n)
    /\ \A n \in G0.nodes :
          Hazarded(n) =>
             /\ island # None => n \notin island[1].nodes
             /\ route # None => ~InSeq(n, route[1].path)

C1_Witness ==
    /\ pc = "done"
    /\ route # None
    /\ Len(route[1].path) >= 2
    /\ \E n \in G0.nodes : Hazarded(n)

\* C2: after the node removal, after the edge removal, and in the island
\* returned, both end nodes of every edge are nodes of the same graph.
C2_Closure ==
    /\ WellFormed(G)
    /\ island # None => WellFormed(island[1])

C2_Witness ==
    /\ pc = "returned"
    /\ G.nodes # G0.nodes
    /\ \E e \in G0.edges : e.u \notin G.nodes /\ e.v \in G.nodes
    /\ island[1].edges # {}

\* The nodes left by pruning and component selection.
NodesLeft == IF island = None THEN G.nodes ELSE island[1].nodes

\* C3 (as claimed): whenever fewer than 2 nodes are left, 0 included, the
\* request ends with 'Need atleast 2 nodes to compute path', and neither
\* get_nearest_node nor get_a_star_geojson was called.
C3_InsufficientNodes ==
    (/\ pc = "done"
     /\ response # Some(LocationNotFound)
     /\ Cardinality(NodesLeft) < 2)
        => /\ response = Some(NeedTwoNodes)
           /\ ~InSeq("get_nearest_node", calls)
           /\ ~InSeq("get_a_star_geojson", calls)

Connected(g) ==
    /\ g.nodes # {}
    /\ \A n \in g.nodes : UReach(g, {n}) = g.nodes

\* C4: the island returned is connected as an undirected graph, and when a
\* start_node is given that is a node of the pruned graph, the island is
\* that node's component.
C4_IslandConnected ==
    pc = "returned" =>
        /\ Connected(island[1])
        /\ (anchor # None /\ anchor[1] \in G.nodes) =>
              /\ anchor[1] \in island[1].nodes
              /\ island[1].nodes = UReach(G, {anchor[1]})

C4_Witness ==
    /\ pc = "returned"
    /\ anchor # None
    /\ anchor[1] \in G.nodes
    /\ Cardinality(island[1].nodes) < Cardinality(MaxComponent(G))

\* Hazards split a connected network into two components, the node nearest
\* the query start in one and the node nearest the query end in the other.
SplitByHazard ==
    /\ Cardinality(ConnectedComponents(G0)) = 1
    /\ Cardinality(ConnectedComponents(G)) = 2
    /\ \E A \in ConnectedComponents(G) : \E B \in ConnectedComponents(G) :
          /\ A # B
          /\ NearestNodes(G, query.start) \subseteq A
          /\ NearestNodes(G, query.end) \subseteq B

\* C5 (as claimed): when the endpoints of the query fall in the two
\* components of a network split by hazards, the route search of the
\* request finds no path: get_a_star_geojson returns None and the answer is
\* 'No route found', never a route.
C5_SplitGivesNoRoute ==
    (/\ pc = "done"
     /\ InSeq("get_a_star_geojson", calls)
     /\ SplitByHazard)
        => /\ route = None
           /\ response = Some(NoRouteFound)

RECURSIVE SearchCost(_, _, _)
SearchCost(g, path, i) ==
    IF i >= Len(path) THEN 0
    ELSE AStarWeight(g, path[i], path[i + 1]) + SearchCost(g, path, i + 1)

\* C6 (as claimed): the reported total distance of a returned route equals
\* the cost A* minimised along it, edges without 'length' included.
C6_ReportedEqualsSearched ==
    route # None =>
        route[1].distance_meters = SearchCost(island[1], route[1].path, 1)

\* Every edge carries a length of at least the straight-line distance of
\* its nodes.
Admissible(g) ==
    \A e \in g.edges :
        e.length # None /\ e.length[1] >= HaversineDistance(e.u, e.v)

MinParallelLength(g, u, v) == MinOf({e.length[1] : e \in ParallelEdges(g, u, v)})

RECURSIVE HopSum(_, _, _)
HopSum(g, path, i) ==
    IF i >= Len(path) THEN 0
    ELSE MinParallelLength(g, path[i], path[i + 1]) + HopSum(g, path, i + 1)

\* Least directed path costs from s, by rounds of relaxation.
RECURSIVE LeastCosts(_, _, _)
LeastCosts(g, D, k) ==
    IF k = 0 THEN D
    ELSE LeastCosts(g,
            [v \in g.nodes |->
                LET cands == (IF D[v] = None THEN {} ELSE {D[v][1]})
                        \cup {D[e.u][1] + MinParallelLength(g, e.u, v) :
                                e \in {d \in g.edges : d.v = v /\ D[d.u] # None}}
                IN  IF cands = {} THEN None ELSE Some(MinOf(cands))],
            k - 1)

LeastCost(g, s, t) ==
    LeastCosts(g, [v \in g.nodes |-> IF v = s THEN Some(0) ELSE None],
               Cardinality(g.nodes))[t]

\* C7: on an island whose heuristic is admissible, the returned path costs
\* no more than any directed path from start to end.
C7_CostOptimal ==
    (route # None /\ Admissible(island[1])) =>
        Some(HopSum(island[1], route[1].path, 1))
            = LeastCost(island[1], startNode[1], endNode[1])

C7_Witness ==
    /\ pc = "routed"
    /\ Admissible(island[1])
    /\ Len(route[1].path) >= 3
    /\ ParallelEdges(island[1], startNode[1], endNode[1]) # {}

\* C8: with an all-clear grid the graph after the node removal and after
\* the edge removal is the input graph.
C8_AllClearKeepsNetwork ==
    (AllClear /\ Pruned) => G = G0

C8_Witness ==
    /\ pc = "edges_removed"
    /\ AllClear
    /\ \E e \in G0.edges : e.geometry # None
    /\ \E n \in G0.nodes : LatLonToGridCoords(NodePoint(n)) = None

\* The point lies outside the bounding box.
OutsideBBox(p) ==
    \/ p.y > BBox.north * p.den
    \/ p.y < BBox.south * p.den
    \/ p.x < BBox.west * p.den
    \/ p.x > BBox.east * p.den

\* C9 (as claimed): for a point outside the bounding box, one less than a
\* cell beyond the north or west edge included, is_node_flooded answers
\* false whatever the grid holds (the point maps to no cell).
C9_OutsideNeverFlooded ==
    (pc = "checked" /\ OutsideBBox(pt)) => flooded = FALSE

RECURSIVE DReach(_, _)
DReach(g, S) ==
    LET T == (S \cup {e.v : e \in {d \in g.edges : d.u \in S}}) \cap g.nodes
    IN  IF T = S THEN S ELSE DReach(g, T)

IsDirectedPath(g, path, s, t) ==
    /\ Len(path) >= 1
    /\ path[1] = s
    /\ path[Len(path)] = t
    /\ \A i \in 1 .. Len(path) - 1 : ParallelEdges(g, path[i], path[i + 1]) # {}

\* C10: a route is returned exactly when a directed path leads from start
\* to end, and it is such a path; otherwise the result is None.
C10_RouteIffDirectedPath ==
    pc \in {"routed", "no_route"} =>
        /\ (route # None) <=> (endNode[1] \in DReach(island[1], {startNode[1]}))
        /\ route # None =>
              IsDirectedPath(island[1], route[1].path, startNode[1], endNode[1])
        /\ pc = "routed" <=> route # None

C10_Witness ==
    /\ pc = "no_route"
    /\ Connected(island[1])
    /\ startNode # endNode
    /\ startNode[1] \in DReach(island[1], {endNode[1]})

=============================================================================
